---- MODULE Spec2Model ----
(***************************************************************************)
(* State machine of the Javier Soto Telegram bot (src/bot.js): the         *)
(* StateManager maps, the Telegraf middleware, the command and message     *)
(* handlers, the three pipelines and the global error handler.  Every      *)
(* handler invocation is a record with a program counter; a step runs the  *)
(* synchronous code between two awaits, so invocations interleave exactly  *)
(* at the suspension points of the code.                                   *)
(***************************************************************************)
EXTENDS Integers, Sequences, FiniteSets, TLC

VARIABLES
  openai,                       \* TRUE iff the OpenAI client was constructed (bot.js 133-148)
  userSessions,                 \* StateManager.userSessions: user -> lastAction
  pendingOperations,            \* StateManager.pendingOperations: user -> operation tag
  conversations,                \* StateManager.conversations: user -> history
  pendingVoiceTransformations,  \* StateManager.pendingVoiceTransformations: user -> message_id
  files,                        \* temporary artifacts that exist in CONFIG.TMP_DIR
  inv,                          \* handler invocations, by update number
  timeouts,                     \* updates whose handler has exceeded handlerTimeout
  lastEvent,                    \* history: what the last step did (a reply, an error, a return)
  appendLog,                    \* history: entries appended per user since the history was created
  v2vEntered,                   \* history: /v2v message_id -> times processVoiceTransformation was entered for it
  call,                         \* a call of a helper function on its own: its arguments and its result
  proc                          \* the process: environment, startup phase, exit code

vars == <<openai, userSessions, pendingOperations, conversations,
          pendingVoiceTransformations, files, inv, timeouts, lastEvent, appendLog,
          v2vEntered, call, proc>>

----------------------------------------------------------------------------
(* Bounds of the model *)

MaxUpdates == 3      \* updates received in one behaviour
MaxRunning == 2      \* handlers in flight at once
MaxTimeouts == 1     \* updates whose handler exceeds handlerTimeout in one behaviour
MaxAppends == 23     \* entries appended to the histories that exist, in the store specification
MaxUnanswered == 1   \* user entries appended right after a user entry, in the store specification
MaxCap == 4          \* largest maxRetries handed to Utils.retry, in the retry specification
MaxParts == 5        \* parts of a /t2v message after the command, in the parser specification
MaxHandled == 2      \* updates handled after the launch, in the startup specification
MaxValue == 25       \* the largest option value of a /t2v message, in tenths

(* Program constants *)

maxHistoryPairs == 10
maxMessages == 1 + (maxHistoryPairs * 2)
MAX_RETRIES == 3
RETRY_DELAY == 5000

(* CONFIG.ELEVEN_LABS defaults, in tenths *)
STABILITY == 3
STYLE == 7
SPEED == 10

(* Users: 1 and 2 are in AUTHORIZED_USERS, 3 is not *)
Users == {1, 2, 3}
authorizedUsers == {1, 2}

----------------------------------------------------------------------------
(* JavaScript Map and Array primitives *)

EmptyMap == [k \in {} |-> 0]

MapSet(m, k, v) == [x \in (DOMAIN m) \cup {k} |-> IF x = k THEN v ELSE m[x]]

MapDelete(m, k) == [x \in (DOMAIN m) \ {k} |-> m[x]]

MapHas(m, k) == k \in DOMAIN m

\* Array.prototype.splice(start, deleteCount) with a 0-based start
splice(s, start, deleteCount) ==
  SubSeq(s, 1, start) \o SubSeq(s, start + deleteCount + 1, Len(s))

----------------------------------------------------------------------------
(* StateManager: conversation store *)

SystemEntry == [role |-> "system", content |-> 0]

Entry(role, content) == [role |-> role, content |-> content]

\* the store after getConversation(userId); the returned history is the entry of userId
getConversation(convs, userId) ==
  IF MapHas(convs, userId) THEN convs ELSE MapSet(convs, userId, <<SystemEntry>>)

\* the cap enforced from index 0: the system entry is evicted first
addMessageToConversationFromZero(convs, userId, role, content) ==
  IF ~openai THEN convs
  ELSE LET c == getConversation(convs, userId)
           pushed == Append(c[userId], Entry(role, content))
       IN MapSet(c, userId,
                 IF Len(pushed) > maxMessages
                 THEN splice(pushed, 0, Len(pushed) - maxMessages)
                 ELSE pushed)

\* the cap enforced at the end: the newest entries are dropped
addMessageToConversationNewest(convs, userId, role, content) ==
  IF ~openai THEN convs
  ELSE LET c == getConversation(convs, userId)
           pushed == Append(c[userId], Entry(role, content))
       IN MapSet(c, userId,
                 IF Len(pushed) > maxMessages
                 THEN splice(pushed, maxMessages, Len(pushed) - maxMessages)
                 ELSE pushed)

\* the entry inserted right after the system entry instead of pushed at the end
addMessageToConversationInserted(convs, userId, role, content) ==
  IF ~openai THEN convs
  ELSE LET c == getConversation(convs, userId)
           pushed == <<Head(c[userId]), Entry(role, content)>> \o Tail(c[userId])
       IN MapSet(c, userId,
                 IF Len(pushed) > maxMessages
                 THEN splice(pushed, 1, Len(pushed) - maxMessages)
                 ELSE pushed)

addMessageToConversation(convs, userId, role, content) ==
  IF ~openai THEN convs
  ELSE LET c == getConversation(convs, userId)
           pushed == Append(c[userId], Entry(role, content))
       IN MapSet(c, userId,
                 IF Len(pushed) > maxMessages
                 THEN splice(pushed, 1, Len(pushed) - maxMessages)
                 ELSE pushed)

\* the history emptied instead of deleted
deleteConversationEmptied(convs, userId) == MapSet(convs, userId, << >>)

\* the history reseeded at once instead of deleted
deleteConversationReseeded(convs, userId) == MapSet(convs, userId, <<SystemEntry>>)

\* this.stateManager.conversations.delete(userId)
deleteConversation(convs, userId) == MapDelete(convs, userId)

\* history: what addMessageToConversation was asked to append
LogAppend(log, userId, role, content) ==
  IF ~openai THEN log
  ELSE MapSet(log, userId,
              (IF MapHas(log, userId) THEN log[userId] ELSE << >>) \o <<Entry(role, content)>>)

----------------------------------------------------------------------------
(* The conversation store on its own: any sequence of getConversation,     *)
(* addMessageToConversation and delete, by any authorized user.            *)

Appended(u) == IF MapHas(appendLog, u) THEN Len(appendLog[u]) ELSE 0

TotalAppends == Appended(1) + Appended(2)

\* user entries of the log of u that follow a user entry (exchanges that got no reply)
Unanswered(u) ==
  IF MapHas(appendLog, u)
  THEN Cardinality({k \in 2..Len(appendLog[u]) :
                      appendLog[u][k].role = "user" /\ appendLog[u][k-1].role = "user"})
  ELSE 0

LastRole(u) ==
  IF MapHas(appendLog, u) /\ Len(appendLog[u]) > 0
  THEN appendLog[u][Len(appendLog[u])].role ELSE "system"

Event(userId, kind, event) == [user |-> userId, kind |-> kind, event |-> event]

NoEvent == Event(0, "", "none")

\* no helper function is being called on its own
NoCall == [fn |-> "none"]

\* the environment values that validateEnvVars requires (bot.js 195)
Required == {"BOT_TOKEN", "ELEVEN_API_KEY", "AUTHORIZED_USERS"}

\* the process while it serves updates: bot.launch has been called after a
\* startup in which every value was present and every check passed
Serving == [phase |-> "serving", env |-> Required, checks |-> [k \in {} |-> ""],
            allOk |-> TRUE, exitCode |-> -1, cause |-> "none", handled |-> 0]

InitStore ==
  /\ call = NoCall
  /\ proc = Serving
  /\ openai \in BOOLEAN
  /\ userSessions = EmptyMap
  /\ pendingOperations = EmptyMap
  /\ conversations = EmptyMap
  /\ pendingVoiceTransformations = EmptyMap
  /\ files = {}
  /\ inv = << >>
  /\ timeouts = 0
  /\ lastEvent = NoEvent
  /\ appendLog = EmptyMap
  /\ v2vEntered = EmptyMap

StoreFrame == UNCHANGED <<openai, userSessions, pendingOperations,
                          pendingVoiceTransformations, files, inv, timeouts,
                          v2vEntered, call, proc>>

StoreGet(u) ==
  /\ conversations' = getConversation(conversations, u)
  /\ lastEvent' = Event(u, "store", "get")
  /\ UNCHANGED appendLog
  /\ StoreFrame

StoreAdd(u, role) ==
  /\ TotalAppends < MaxAppends
  /\ role = "assistant" => LastRole(u) = "user"
  /\ (role = "user" /\ LastRole(u) = "user") =>
        Unanswered(1) + Unanswered(2) < MaxUnanswered
  /\ conversations' = addMessageToConversation(conversations, u, role, Appended(u) + 1)
  /\ appendLog' = LogAppend(appendLog, u, role, Appended(u) + 1)
  /\ lastEvent' = Event(u, "store", role)
  /\ StoreFrame

StoreReset(u) ==
  /\ conversations' = deleteConversation(conversations, u)
  /\ appendLog' = MapDelete(appendLog, u)
  /\ lastEvent' = Event(u, "store", IF MapHas(conversations, u) THEN "reset" ELSE "reset_absent")
  /\ StoreFrame

NextStore ==
  \E u \in authorizedUsers :
    \/ StoreGet(u)
    \/ \E role \in {"user", "assistant"} : StoreAdd(u, role)
    \/ StoreReset(u)

SpecStore == InitStore /\ [][NextStore]_vars

----------------------------------------------------------------------------
(* StateManager: authorization, sessions, operation lock, voice intent *)

\* the gate open to every user
isAuthorizedAnyone(userId) == userId \in Users

isAuthorized(userId) == userId \in authorizedUsers

\* createUserSession; lastAction, a timestamp nothing reads, is left out
touchSession(sessions, userId) == MapSet(sessions, userId, [currentOperation |-> "null"])

setPendingOperation(ops, userId, operationType) == MapSet(ops, userId, operationType)

\* the check that never finds a lock
hasPendingOperationNever(ops, userId) == FALSE

hasPendingOperation(ops, userId) == MapHas(ops, userId)

\* the lock left in place
clearPendingOperationKept(ops, userId) == ops

\* the release that drops the lock of every user
clearPendingOperationAll(ops, userId) == EmptyMap

clearPendingOperation(ops, userId) == MapDelete(ops, userId)

setPendingVoiceTransformation(pvt, userId, initiatingMessageId) ==
  MapSet(pvt, userId, initiatingMessageId)

\* the lookup that never finds an intent
getPendingVoiceTransformationUndefined(pvt, userId) == 0

\* the message_id of the pending /v2v, or 0 for undefined
getPendingVoiceTransformation(pvt, userId) == IF MapHas(pvt, userId) THEN pvt[userId] ELSE 0

\* the clearing that leaves the intent in place
clearPendingVoiceTransformationKept(pvt, userId) == pvt

clearPendingVoiceTransformation(pvt, userId) == MapDelete(pvt, userId)

----------------------------------------------------------------------------
(* Handler invocations.  An invocation is suspended at the await its pc    *)
(* names.  An await after which the code touches no bot state before the   *)
(* next await is part of that next await: chat actions, edits of the       *)
(* loading message, the fallback of a failed notice, and the attempts and  *)
(* delays inside Utils.retry.  loadingMessage only selects how a notice is *)
(* delivered and is left out.  What a step shows to the user is recorded   *)
(* in lastEvent.                                                           *)

NoFile == [prefix |-> "none", ts |-> 0]

TmpFile(prefix, ts) == [prefix |-> prefix, ts |-> ts]

\* kind: "reply" for a handler that only replies, else the pipeline or command
Invocation(userId, kind, pc) ==
  [user |-> userId, kind |-> kind, pc |-> pc, inFile |-> NoFile, outFile |-> NoFile,
   timedOut |-> FALSE]

\* a handler that has returned
Done == Invocation(0, "", "done")

PipelinePcs == {"gpt_feedback", "gpt_call", "gpt_deliver", "gpt_error_notice",
                "t2v_feedback", "t2v_call", "t2v_send", "t2v_error_notice",
                "v2v_download", "v2v_progress", "v2v_call", "v2v_sending",
                "v2v_send", "v2v_error_notice"}

Running == {i \in DOMAIN inv : inv[i].pc # "done"}

\* the invocations of userId inside a pipeline body: the lock was set, the finally has not run
InPipeline(userId) == {i \in Running : inv[i].user = userId /\ inv[i].pc \in PipelinePcs}

NextMessageId == Len(inv) + 1

\* an update arrives and its handler runs up to its first await
Arrive(r, event) ==
  /\ Len(inv) < MaxUpdates
  /\ Cardinality(Running) < MaxRunning
  /\ inv' = Append(inv, r)
  /\ lastEvent' = event
  /\ UNCHANGED <<call, proc>>

\* an update arrives and its handler returns without awaiting
ArriveAndReturn(event) ==
  /\ Len(inv) < MaxUpdates
  /\ inv' = Append(inv, Done)
  /\ lastEvent' = event
  /\ UNCHANGED <<call, proc>>

\* the handler of update i runs from one await to the next
Continue(i, r, event) ==
  /\ inv' = [inv EXCEPT ![i] = r]
  /\ lastEvent' = Event(inv[i].user, inv[i].kind, event)
  /\ UNCHANGED <<call, proc>>

\* the handler of update i returns
Return(i, event) ==
  /\ inv' = [inv EXCEPT ![i] = Done]
  /\ lastEvent' = Event(inv[i].user, inv[i].kind, event)
  /\ UNCHANGED <<call, proc>>

\* the middleware lets the update through (bot.js 823-833)
Admit(userId) ==
  /\ isAuthorized(userId)
  /\ userSessions' = touchSession(userSessions, userId)

\* a handler replies with a notice and returns once the reply settles
Reply(userId, kind, notice) ==
  Arrive(Invocation(userId, "reply", "notice"), Event(userId, kind, notice))

\* Date.now() in a file name: a new name, or the name of a file that a running
\* invocation wrote in the same millisecond
Paths(prefix, i) ==
  {TmpFile(prefix, i)} \cup
  {f \in {inv[j].inFile : j \in Running} \cup {inv[j].outFile : j \in Running} :
     f.prefix = prefix}

----------------------------------------------------------------------------
(* Middleware (bot.js 800-834) *)

Unauthorized(userId) ==
  /\ ~isAuthorized(userId)
  /\ Reply(userId, "any", "unauthorized")
  /\ UNCHANGED <<openai, timeouts, userSessions, pendingOperations, conversations,
                 pendingVoiceTransformations, files, appendLog, v2vEntered>>

\* the reply of a handler that only sends a notice has settled (sent or failed, both caught)
NoticeSettled(i) ==
  /\ i \in DOMAIN inv
  /\ inv[i].pc = "notice"
  /\ Return(i, "settled")
  /\ UNCHANGED <<openai, timeouts, userSessions, pendingOperations, conversations,
                 pendingVoiceTransformations, files, appendLog, v2vEntered>>

----------------------------------------------------------------------------
(* Commands without a pipeline *)

\* /start, /help (bot.js 899-954)
handleHelp(userId) ==
  /\ Admit(userId)
  /\ Reply(userId, "help", "help")
  /\ UNCHANGED <<openai, timeouts, pendingOperations, conversations,
                 pendingVoiceTransformations, files, appendLog, v2vEntered>>

\* /reset without the check of the generation backend
handleResetConversationUnchecked(userId) ==
  /\ Admit(userId)
  /\ conversations' = deleteConversation(conversations, userId)
  /\ appendLog' = MapDelete(appendLog, userId)
  /\ Reply(userId, "reset", "reset_confirmed")
  /\ UNCHANGED <<openai, timeouts, pendingOperations, pendingVoiceTransformations,
                 files, v2vEntered>>

\* /reset (bot.js 1146-1163)
handleResetConversation(userId) ==
  /\ Admit(userId)
  /\ IF ~openai
     THEN /\ Reply(userId, "reset", "gpt_disabled")
          /\ UNCHANGED <<conversations, appendLog>>
     ELSE /\ conversations' = deleteConversation(conversations, userId)
          /\ appendLog' = MapDelete(appendLog, userId)
          /\ Reply(userId, "reset", "reset_confirmed")
  /\ UNCHANGED <<openai, timeouts, pendingOperations, pendingVoiceTransformations,
                 files, v2vEntered>>

\* /v2v (bot.js 1116-1143)
handleVoiceToVoiceCommand(userId) ==
  /\ Admit(userId)
  /\ IF hasPendingOperation(pendingOperations, userId)
     THEN /\ Reply(userId, "v2v", "busy")
          /\ UNCHANGED pendingVoiceTransformations
     ELSE IF getPendingVoiceTransformation(pendingVoiceTransformations, userId) # 0
     THEN /\ Reply(userId, "v2v", "already_waiting")
          /\ UNCHANGED pendingVoiceTransformations
     ELSE /\ pendingVoiceTransformations' =
               setPendingVoiceTransformation(pendingVoiceTransformations, userId, NextMessageId)
          /\ Arrive(Invocation(userId, "v2v", "v2v_arm_reply"), Event(userId, "v2v", "send_audio"))
  /\ UNCHANGED <<openai, timeouts, pendingOperations, conversations, files,
                 appendLog, v2vEntered>>

\* the 'send me the audio' reply settled (bot.js 1136-1142); if it failed the
\* intent is cleared and a second notice is tried
V2VArmReplySettled(i, sent) ==
  /\ i \in DOMAIN inv
  /\ inv[i].pc = "v2v_arm_reply"
  /\ IF sent
     THEN /\ Return(i, "armed")
          /\ UNCHANGED pendingVoiceTransformations
     ELSE /\ pendingVoiceTransformations' =
               clearPendingVoiceTransformation(pendingVoiceTransformations, inv[i].user)
          /\ Continue(i, [inv[i] EXCEPT !.kind = "reply", !.pc = "notice"], "arm_failed")
  /\ UNCHANGED <<openai, timeouts, userSessions, pendingOperations, conversations,
                 files, appendLog, v2vEntered>>

----------------------------------------------------------------------------
(* Utils.retry (bot.js 168-188) *)

\* the loop from iteration i, when the next `failures` attempts throw
RECURSIVE retryFrom(_, _)
retryFrom(i, failures) ==
  IF i >= MAX_RETRIES THEN [ok |-> FALSE, attempts |-> i]
  ELSE IF failures = 0 THEN [ok |-> TRUE, attempts |-> i + 1]
  ELSE retryFrom(i + 1, failures - 1)

retry(failures) == retryFrom(0, failures)

\* how many attempts in a row the backend may fail
Failures == 0..MAX_RETRIES

\* what one call of fn does: it throws an error of some kind, or it returns a
\* response, which may have no content
Throwing == {"network", "rate_limit", "validation"}
Returning == {"content", "empty"}
Outcomes == Throwing \cup Returning

\* the error or the response of the attempt-th call of fn
Outcome(kind, attempt) == [kind |-> kind, attempt |-> attempt]

\* lastError before any attempt has failed
Undefined == Outcome("undefined", 0)

\* Math.pow(2, i)
RECURSIVE pow2(_)
pow2(i) == IF i = 0 THEN 1 ELSE 2 * pow2(i - 1)

\* a wait that grows by one base delay per failure
waitTimeLinear(delay, i) == delay * (i + 1)

\* waitTime after the failure of iteration i (bot.js 178)
waitTime(delay, i) == delay * pow2(i)

\* a wait after every failure, the last one included
waitsAfterEvery(waits, maxRetries, delay, i) == Append(waits, waitTime(delay, i))

\* the waits made so far, after the failure of iteration i (bot.js 176-181)
waitsAfter(waits, maxRetries, delay, i) ==
  IF i < maxRetries - 1 THEN Append(waits, waitTime(delay, i)) ELSE waits

\* the for loop of Utils.retry from iteration i (bot.js 170-187); fn[k] is what
\* the k-th call of fn does
RECURSIVE retryLoop(_, _, _, _, _, _)
retryLoop(fn, maxRetries, delay, i, lastError, waits) ==
  IF i >= maxRetries
  THEN [status |-> "thrown", value |-> lastError, attempts |-> i, waits |-> waits]
  ELSE IF fn[i + 1] \in Returning
  THEN [status |-> "returned", value |-> Outcome(fn[i + 1], i + 1), attempts |-> i + 1,
        waits |-> waits]
  ELSE retryLoop(fn, maxRetries, delay, i + 1, Outcome(fn[i + 1], i + 1),
                 waitsAfter(waits, maxRetries, delay, i))

\* Utils.retry(fn, maxRetries, delay) (bot.js 168-188)
UtilsRetry(fn, maxRetries, delay) == retryLoop(fn, maxRetries, delay, 0, Undefined, << >>)

\* a backend call as the three ApiService functions make it (generateGPTResponse
\* bot.js 412-439, generateVoice 502-521, transformVoice 611-629): the request
\* goes through Utils.retry with the defaults, and the response that came back
\* is validated after the retry has returned
generateGPTResponse(fn) ==
  LET completion == UtilsRetry(fn, MAX_RETRIES, RETRY_DELAY)
  IN IF completion.status = "returned" /\ completion.value.kind = "empty"
     THEN [completion EXCEPT !.status = "thrown",
                             !.value = Outcome("unexpected_response", completion.attempts)]
     ELSE completion

\* the base delays handed to Utils.retry
Delays == {1000, RETRY_DELAY}

Pending == [status |-> "pending"]

\* the calls of Utils.retry that are examined
RetryCalls ==
  UNION {{[fn |-> "retry", maxRetries |-> n, delay |-> d, outcomes |-> o, result |-> Pending] :
            d \in Delays, o \in [1..n -> Outcomes]} : n \in 1..MaxCap}

\* the backend calls that are examined
GenerateCalls ==
  {[fn |-> "generate", outcomes |-> o, result |-> Pending] : o \in [1..MAX_RETRIES -> Outcomes]}

BotIdle ==
  /\ proc = Serving
  /\ openai = TRUE
  /\ userSessions = EmptyMap
  /\ pendingOperations = EmptyMap
  /\ conversations = EmptyMap
  /\ pendingVoiceTransformations = EmptyMap
  /\ files = {}
  /\ inv = << >>
  /\ timeouts = 0
  /\ lastEvent = NoEvent
  /\ appendLog = EmptyMap
  /\ v2vEntered = EmptyMap

BotFrame == UNCHANGED <<openai, userSessions, pendingOperations, conversations,
                        pendingVoiceTransformations, files, inv, timeouts, lastEvent,
                        appendLog, v2vEntered, proc>>

InitRetry ==
  /\ BotIdle
  /\ call \in RetryCalls \cup GenerateCalls

\* Utils.retry runs to its end
RetryCall ==
  /\ call.fn = "retry"
  /\ call.result = Pending
  /\ call' = [call EXCEPT !.result = UtilsRetry(call.outcomes, call.maxRetries, call.delay)]
  /\ BotFrame

\* a backend function runs to its end
GenerateCall ==
  /\ call.fn = "generate"
  /\ call.result = Pending
  /\ call' = [call EXCEPT !.result = generateGPTResponse(call.outcomes)]
  /\ BotFrame

NextRetry ==
  \/ RetryCall
  \/ GenerateCall

SpecRetry == InitRetry /\ [][NextRetry]_vars

----------------------------------------------------------------------------
(* Text-generation pipeline (bot.js 957-981, 1170-1199, 1242-1312) *)

\* the entry that checks the lock and never sets it
LockAtEntryUnset(ops, userId, operationType) == ops

\* the lock after the check-then-set at a pipeline entry (bot.js 1253-1260,
\* 1048-1055, 1328-1335): no await lies between the check and the set
LockAtEntry(ops, userId, operationType) ==
  IF hasPendingOperation(ops, userId) THEN ops
  ELSE setPendingOperation(ops, userId, operationType)

\* processGPTMessage up to its first await
processGPTMessage(userId, kind) ==
  IF ~openai
  THEN /\ Reply(userId, kind, "gpt_disabled")
       /\ UNCHANGED pendingOperations
  ELSE /\ pendingOperations' = LockAtEntry(pendingOperations, userId, "gpt_generating")
       /\ IF hasPendingOperation(pendingOperations, userId)
          THEN Reply(userId, kind, "busy")
          ELSE Arrive(Invocation(userId, "gpt", "gpt_feedback"), Event(userId, kind, "accepted"))

\* /t (bot.js 957-981)
handleTextCommand(userId, hasText) ==
  /\ Admit(userId)
  /\ IF ~openai
     THEN /\ Reply(userId, "t", "gpt_disabled")
          /\ UNCHANGED pendingOperations
     ELSE IF ~hasText
     THEN /\ Reply(userId, "t", "usage")
          /\ UNCHANGED pendingOperations
     ELSE processGPTMessage(userId, "t")
  /\ UNCHANGED <<openai, timeouts, conversations, pendingVoiceTransformations, files,
                 appendLog, v2vEntered>>

\* the text handler without the check of the voice intent
handleMessageIntentIgnored(userId, isPlain) ==
  /\ Admit(userId)
  /\ IF ~isPlain
     THEN /\ ArriveAndReturn(Event(userId, "text", "ignored"))
          /\ UNCHANGED pendingOperations
     ELSE IF ~openai
     THEN /\ Reply(userId, "text", "gpt_disabled")
          /\ UNCHANGED pendingOperations
     ELSE processGPTMessage(userId, "text")
  /\ UNCHANGED <<openai, timeouts, conversations, pendingVoiceTransformations, files,
                 appendLog, v2vEntered>>

\* a text message that no command matched (bot.js 1170-1199)
handleMessage(userId, isPlain) ==
  /\ Admit(userId)
  /\ IF ~isPlain
     THEN /\ ArriveAndReturn(Event(userId, "text", "ignored"))
          /\ UNCHANGED pendingOperations
     ELSE IF getPendingVoiceTransformation(pendingVoiceTransformations, userId) # 0
     THEN /\ Arrive(Invocation(userId, "text", "cancel_notice"),
                    Event(userId, "text", "v2v_cancelled"))
          /\ UNCHANGED pendingOperations
     ELSE IF ~openai
     THEN /\ Reply(userId, "text", "gpt_disabled")
          /\ UNCHANGED pendingOperations
     ELSE processGPTMessage(userId, "text")
  /\ UNCHANGED <<openai, timeouts, conversations, pendingVoiceTransformations, files,
                 appendLog, v2vEntered>>

\* a progress notice whose failure reaches the try block of the pipeline
feedbackUncaught(sent) == [thrown |-> ~sent, loadingMessage |-> sent]

\* await ctx.reply(...).catch(() => {}) and the notices guarded by
\* 'if (loadingMessage)' (bot.js 1265-1266, 1064-1068, 1344-1345, 1371-1372,
\* 1378-1379): a failure is swallowed and leaves loadingMessage undefined
feedback(sent) == [thrown |-> FALSE, loadingMessage |-> sent]

\* the cancellation notice settled; only now is the intent cleared (bot.js 1186-1188)
CancelNoticeSettled(i) ==
  /\ i \in DOMAIN inv
  /\ inv[i].pc = "cancel_notice"
  /\ pendingVoiceTransformations' =
       clearPendingVoiceTransformation(pendingVoiceTransformations, inv[i].user)
  /\ Return(i, "intent_cleared")
  /\ UNCHANGED <<openai, timeouts, userSessions, pendingOperations, conversations,
                 files, appendLog, v2vEntered>>

\* 'Pensando...' and the typing action settled; the user message is appended
\* and generateGPTResponse is called (bot.js 1265-1275)
GptFeedbackSettled(i, sent) ==
  /\ i \in DOMAIN inv
  /\ inv[i].pc = "gpt_feedback"
  /\ IF feedback(sent).thrown
     THEN /\ Continue(i, [inv[i] EXCEPT !.pc = "gpt_error_notice"], "feedback_failed")
          /\ UNCHANGED <<conversations, appendLog>>
     ELSE /\ conversations' = addMessageToConversation(conversations, inv[i].user, "user", i)
          /\ appendLog' = LogAppend(appendLog, inv[i].user, "user", i)
          /\ Continue(i, [inv[i] EXCEPT !.pc = "gpt_call"],
                      IF sent THEN "backend_called" ELSE "backend_called_unannounced")
  /\ UNCHANGED <<openai, timeouts, userSessions, pendingOperations,
                 pendingVoiceTransformations, files, v2vEntered>>

\* generateGPTResponse settled (bot.js 412-439, 1275-1279): the retries gave up,
\* or the completion was empty, or the reply is appended and delivered
GptCallSettled(i, failures, hasContent) ==
  /\ i \in DOMAIN inv
  /\ inv[i].pc = "gpt_call"
  /\ IF retry(failures).ok /\ hasContent
     THEN /\ conversations' = addMessageToConversation(conversations, inv[i].user, "assistant", i)
          /\ appendLog' = LogAppend(appendLog, inv[i].user, "assistant", i)
          /\ Continue(i, [inv[i] EXCEPT !.pc = "gpt_deliver"], "generated")
     ELSE /\ Continue(i, [inv[i] EXCEPT !.pc = "gpt_error_notice"],
                      IF retry(failures).ok THEN "invalid_response" ELSE "backend_failed")
          /\ UNCHANGED <<conversations, appendLog>>
  /\ UNCHANGED <<openai, timeouts, userSessions, pendingOperations,
                 pendingVoiceTransformations, files, v2vEntered>>

\* the reply was delivered or not (both caught), then the finally (bot.js 1283-1294, 1307-1311)
GptDeliverSettled(i, delivered) ==
  /\ i \in DOMAIN inv
  /\ inv[i].pc = "gpt_deliver"
  /\ pendingOperations' = clearPendingOperation(pendingOperations, inv[i].user)
  /\ Return(i, IF delivered THEN "ok" ELSE "delivery_failed")
  /\ UNCHANGED <<openai, timeouts, userSessions, conversations,
                 pendingVoiceTransformations, files, appendLog, v2vEntered>>

\* the error notice settled, then the finally (bot.js 1297-1311)
GptErrorNoticeSettled(i) ==
  /\ i \in DOMAIN inv
  /\ inv[i].pc = "gpt_error_notice"
  /\ pendingOperations' = clearPendingOperation(pendingOperations, inv[i].user)
  /\ Return(i, "failed")
  /\ UNCHANGED <<openai, timeouts, userSessions, conversations,
                 pendingVoiceTransformations, files, appendLog, v2vEntered>>

----------------------------------------------------------------------------
(* Global error handler (bot.js 868-892).  Every await of every handler is *)
(* caught, so the only fault that reaches bot.catch is the rejection of    *)
(* Telegraf's handlerTimeout (bot.js 788-791): it fires once for an update *)
(* whose handler has not returned, and the handler keeps running.          *)

\* the maps after the handler's clean-up of userId (bot.js 886-890)
ErrorHandlerOps(ops, userId) == clearPendingOperation(ops, userId)

\* the error handler without line 888: the intent survives the fault
ErrorHandlerIntentsKept(pvt, userId) == pvt

ErrorHandlerIntents(pvt, userId) == clearPendingVoiceTransformation(pvt, userId)

HandlerTimeout(i) ==
  /\ i \in Running
  /\ ~inv[i].timedOut
  /\ timeouts < MaxTimeouts
  /\ timeouts' = timeouts + 1
  /\ pendingOperations' = ErrorHandlerOps(pendingOperations, inv[i].user)
  /\ pendingVoiceTransformations' =
       ErrorHandlerIntents(pendingVoiceTransformations, inv[i].user)
  /\ Continue(i, [inv[i] EXCEPT !.timedOut = TRUE], "handler_timeout")
  /\ UNCHANGED <<openai, userSessions, conversations, files, appendLog, v2vEntered>>

----------------------------------------------------------------------------
(* /t2v argument parsing (bot.js 989-1045) *)

\* the parts of the message after the command: an option, a number, a number
\* followed by other characters ('0.4abc'), another word, or the empty string
\* that split leaves after trailing white space
Flag(name) == [type |-> "flag", flag |-> name, value |-> 0]

Number(v) == [type |-> "number", flag |-> "", value |-> v]

Prefixed(v) == [type |-> "prefixed", flag |-> "", value |-> v]

Word == [type |-> "word", flag |-> "", value |-> 0]

EmptyPart == [type |-> "empty", flag |-> "", value |-> 0]

\* a JavaScript number: a value, or NaN
Float(v) == [isNaN |-> FALSE, value |-> v]

NaN == [isNaN |-> TRUE, value |-> 0]

\* parseFloat of a part: the number at its start, or NaN
parseFloat(part) == IF part.type \in {"number", "prefixed"} THEN Float(part.value) ELSE NaN

ParseStart == [currentFlag |-> "", parsingError |-> FALSE, stopped |-> FALSE,
               textParts |-> << >>, options |-> {}]

\* one iteration of the loop where a value leaves its option pending
ParseStepFlagKept(st, part) ==
  IF st.stopped THEN st
  ELSE IF part.type = "flag" THEN [st EXCEPT !.currentFlag = part.flag]
  ELSE IF st.currentFlag # ""
  THEN IF ~parseFloat(part).isNaN
       THEN [st EXCEPT !.options = {o \in @ : o[1] # st.currentFlag}
                                     \cup {<<st.currentFlag, parseFloat(part).value>>}]
       ELSE [st EXCEPT !.parsingError = TRUE, !.stopped = TRUE]
  ELSE [st EXCEPT !.textParts = Append(@, part)]

\* one iteration of the loop (bot.js 999-1024)
ParseStep(st, part) ==
  IF st.stopped THEN st
  ELSE IF part.type = "flag" THEN [st EXCEPT !.currentFlag = part.flag]
  ELSE IF st.currentFlag # ""
  THEN IF ~parseFloat(part).isNaN
       THEN [st EXCEPT !.options = {o \in @ : o[1] # st.currentFlag}
                                     \cup {<<st.currentFlag, parseFloat(part).value>>},
                       !.currentFlag = ""]
       ELSE [st EXCEPT !.parsingError = TRUE, !.stopped = TRUE]
  ELSE [st EXCEPT !.textParts = Append(@, part)]

RECURSIVE ParseLoop(_, _)
ParseLoop(st, parts) ==
  IF parts = << >> THEN st ELSE ParseLoop(ParseStep(st, Head(parts)), Tail(parts))

\* textParts.join(' ').trim(), as the words it is made of (bot.js 1039): an
\* empty string can only be the last part, and trim removes the space before it
joinTrim(textParts) == SelectSeq(textParts, LAMBDA part : part.type # "empty")

\* what the handler has after the parse (bot.js 989-1039): whether there is a
\* parsing error, the overrides and the text to convert
parseArguments(parts) ==
  LET st == ParseLoop(ParseStart, parts)
  IN [parsingError |-> st.parsingError \/ st.currentFlag # "",
      overrideOptions |-> st.options,
      textToConvert |-> joinTrim(st.textParts)]

\* the result of the parse without the check of the text
ParseT2VAnyText(parts) ==
  IF parseArguments(parts).parsingError THEN "parse_error" ELSE "ok"

\* the result of the parse: "parse_error", "no_text" or "ok" (bot.js 1026-1045)
ParseT2V(parts) ==
  LET args == parseArguments(parts)
  IN  IF args.parsingError THEN "parse_error"
      ELSE IF args.textToConvert = << >> THEN "no_text"
      ELSE "ok"

T2VInputs == { << >>, <<Word>>, <<Flag("stability"), Number(4), Word>>,
               <<Flag("speed"), Word>>, <<Word, Flag("style")>>,
               <<Flag("stability"), Number(4)>> }

OptionNames == {"stability", "style", "speed"}

\* the parts a /t2v message is made of; numbers are in tenths
Tokens == {Flag(name) : name \in OptionNames} \cup {Number(4), Number(11), Prefixed(4), Word}

\* the messages that are parsed: up to MaxParts parts, the last one possibly empty
ParseInputs ==
  UNION {[1..n -> Tokens] : n \in 0..MaxParts}
  \cup UNION {{Append(parts, EmptyPart) : parts \in [1..n -> Tokens]} : n \in 0..(MaxParts - 1)}

InitParse ==
  /\ BotIdle
  /\ call \in {[fn |-> "parse", parts |-> parts, result |-> Pending] : parts \in ParseInputs}

\* the handler parses the message
ParseCall ==
  /\ call.fn = "parse"
  /\ call.result = Pending
  /\ call' = [call EXCEPT !.result = parseArguments(call.parts)]
  /\ BotFrame

NextParse == ParseCall

SpecParse == InitParse /\ [][NextParse]_vars

----------------------------------------------------------------------------
(* Voice settings of the synthesis request (bot.js 449-498) *)

MathMax(a, b) == IF a > b THEN a ELSE b

MathMin(a, b) == IF a < b THEN a ELSE b

\* options.<name> !== undefined
Defined(options, name) == \E o \in options : o[1] = name

\* options.<name>
Get(options, name) == (CHOOSE o \in options : o[1] = name)[2]

\* the settings with the overrides passed through as they are
finalSettingsUnclamped(options) ==
  [stability |-> IF Defined(options, "stability") THEN Get(options, "stability")
                 ELSE STABILITY,
   style |-> IF Defined(options, "style") THEN Get(options, "style") ELSE STYLE,
   speed |-> IF Defined(options, "speed") THEN Get(options, "speed") ELSE SPEED]

\* finalSettings of generateVoice (bot.js 461-478), in tenths; similarity_boost
\* and use_speaker_boost, which /t2v never overrides, are left out
finalSettings(options) ==
  [stability |-> IF Defined(options, "stability")
                 THEN MathMax(0, MathMin(10, Get(options, "stability")))
                 ELSE STABILITY,
   style |-> IF Defined(options, "style") THEN MathMax(0, Get(options, "style")) ELSE STYLE,
   speed |-> IF Defined(options, "speed")
             THEN MathMax(5, MathMin(20, Get(options, "speed")))
             ELSE SPEED]

\* the option values of the messages below, in tenths: below, inside and above
\* the ranges
Values == {-5, 0, 4, 6, 7, 12, 13, 20, MaxValue}

\* the parts of an option in a message: nothing, or the option and a number
OptionParts(name) == {<< >>} \cup {<<Flag(name), Number(v)>> : v \in Values}

\* /t2v messages with a text and -s, -x, -v given or not
VoiceInputs ==
  {s \o x \o v \o <<Word>> :
     s \in OptionParts("stability"), x \in OptionParts("style"), v \in OptionParts("speed")}

\* what /t2v hands to the backend, or the notice it answers with (bot.js
\* 989-1071, 461-493)
voiceRequest(parts) ==
  IF ParseT2V(parts) # "ok" THEN [status |-> ParseT2V(parts)]
  ELSE [status |-> "requested",
        voice_settings |-> finalSettings(parseArguments(parts).overrideOptions)]

InitVoice ==
  /\ BotIdle
  /\ call \in {[fn |-> "voice", parts |-> parts, result |-> Pending] : parts \in VoiceInputs}

\* the handler parses the message and generateVoice builds its request
VoiceCall ==
  /\ call.fn = "voice"
  /\ call.result = Pending
  /\ call' = [call EXCEPT !.result = voiceRequest(call.parts)]
  /\ BotFrame

NextVoice == VoiceCall

SpecVoice == InitVoice /\ [][NextVoice]_vars

----------------------------------------------------------------------------
(* Text-to-voice pipeline (bot.js 984-1113, 449-543) *)

\* /t2v up to its first await
handleTextToVoiceCommand(userId, parts) ==
  /\ Admit(userId)
  /\ IF ParseT2V(parts) # "ok"
     THEN /\ Reply(userId, "t2v", ParseT2V(parts))
          /\ UNCHANGED pendingOperations
     ELSE /\ pendingOperations' = LockAtEntry(pendingOperations, userId, "t2v_converting")
          /\ IF hasPendingOperation(pendingOperations, userId)
             THEN Reply(userId, "t2v", "busy")
             ELSE Arrive(Invocation(userId, "t2v", "t2v_feedback"),
                         Event(userId, "t2v", "accepted"))
  /\ UNCHANGED <<openai, timeouts, conversations, pendingVoiceTransformations, files,
                 appendLog, v2vEntered>>

\* the loading message settled; generateVoice is called (bot.js 1064-1071)
T2vFeedbackSettled(i, sent) ==
  /\ i \in DOMAIN inv
  /\ inv[i].pc = "t2v_feedback"
  /\ IF feedback(sent).thrown
     THEN Continue(i, [inv[i] EXCEPT !.pc = "t2v_error_notice"], "feedback_failed")
     ELSE Continue(i, [inv[i] EXCEPT !.pc = "t2v_call"],
                   IF sent THEN "backend_called" ELSE "backend_called_unannounced")
  /\ UNCHANGED <<openai, timeouts, userSessions, pendingOperations, conversations,
                 pendingVoiceTransformations, files, appendLog, v2vEntered>>

\* generateVoice settled (bot.js 502-541): the retries gave up, or the audio was
\* invalid, or it was written to tts_output_<now>.mp3
T2vCallSettled(i, failures, valid) ==
  /\ i \in DOMAIN inv
  /\ inv[i].pc = "t2v_call"
  /\ IF retry(failures).ok /\ valid
     THEN \E path \in Paths("tts_output", i) :
            /\ files' = files \cup {path}
            /\ Continue(i, [inv[i] EXCEPT !.pc = "t2v_send", !.outFile = path], "generated")
     ELSE /\ Continue(i, [inv[i] EXCEPT !.pc = "t2v_error_notice"],
                      IF retry(failures).ok THEN "invalid_response" ELSE "backend_failed")
          /\ UNCHANGED files
  /\ UNCHANGED <<openai, timeouts, userSessions, pendingOperations, conversations,
                 pendingVoiceTransformations, appendLog, v2vEntered>>

\* fs.existsSync(path) && fs.unlinkSync(path); a path never assigned is skipped
unlinkIfExists(fs, path) == fs \ {path}

\* the cleanup of /t2v (bot.js 1100-1108): an unlinkSync that throws is caught and logged
cleanupT2V(fs, outFile, throws) ==
  IF outFile \in fs /\ throws THEN fs ELSE unlinkIfExists(fs, outFile)

\* the finally of /t2v without line 1110: the lock outlives the pipeline
T2vFinallyLockKept(i, event, throws) ==
  /\ files' = cleanupT2V(files, inv[i].outFile, throws)
  /\ Return(i, event)
  /\ UNCHANGED <<openai, timeouts, userSessions, pendingOperations, conversations,
                 pendingVoiceTransformations, appendLog, v2vEntered>>

\* the finally of /t2v (bot.js 1098-1112)
T2vFinally(i, event, throws) ==
  /\ files' = cleanupT2V(files, inv[i].outFile, throws)
  /\ pendingOperations' = clearPendingOperation(pendingOperations, inv[i].user)
  /\ Return(i, event)
  /\ UNCHANGED <<openai, timeouts, userSessions, conversations,
                 pendingVoiceTransformations, appendLog, v2vEntered>>

\* replyWithAudio settled (bot.js 1074-1083): a send that failed, or whose file is
\* gone, is caught and reported by the error notice
T2vSendSettled(i, sent, throws) ==
  /\ i \in DOMAIN inv
  /\ inv[i].pc = "t2v_send"
  /\ sent => inv[i].outFile \in files
  /\ IF sent
     THEN T2vFinally(i, "ok", throws)
     ELSE /\ Continue(i, [inv[i] EXCEPT !.pc = "t2v_error_notice"], "send_failed")
          /\ UNCHANGED <<openai, timeouts, userSessions, pendingOperations, conversations,
                         pendingVoiceTransformations, files, appendLog, v2vEntered>>

T2vErrorNoticeSettled(i, throws) ==
  /\ i \in DOMAIN inv
  /\ inv[i].pc = "t2v_error_notice"
  /\ T2vFinally(i, "failed", throws)

----------------------------------------------------------------------------
(* Voice-to-voice pipeline (bot.js 1202-1231, 1320-1423, 551-655) *)

\* one more pipeline entry counted for the arming /v2v message
Bump(counts, k) == IF k \in DOMAIN counts THEN [counts EXCEPT ![k] = @ + 1] ELSE MapSet(counts, k, 1)

\* the entry without line 1325: the intent stays armed
IntentAtEntryKept(pvt, userId) == pvt

\* the intent at the entry of processVoiceTransformation (bot.js 1325)
IntentAtEntry(pvt, userId) == clearPendingVoiceTransformation(pvt, userId)

\* processVoiceTransformation up to its first await (bot.js 1320-1344)
processVoiceTransformation(userId, kind) ==
  /\ pendingVoiceTransformations' = IntentAtEntry(pendingVoiceTransformations, userId)
  /\ v2vEntered' = Bump(v2vEntered,
                        getPendingVoiceTransformation(pendingVoiceTransformations, userId))
  /\ pendingOperations' = LockAtEntry(pendingOperations, userId, "v2v_transforming")
  /\ IF hasPendingOperation(pendingOperations, userId)
     THEN Reply(userId, kind, "busy")
     ELSE Arrive(Invocation(userId, "sts", "v2v_download"), Event(userId, kind, "accepted"))

\* a voice message (kind "voice", bot.js 1202-1215) or an audio file (kind "audio", 1218-1231)
handleVoiceMessage(userId, kind) ==
  /\ Admit(userId)
  /\ IF getPendingVoiceTransformation(pendingVoiceTransformations, userId) # 0
     THEN processVoiceTransformation(userId, kind)
     ELSE /\ Reply(userId, kind, "unsolicited_audio")
          /\ UNCHANGED <<pendingOperations, pendingVoiceTransformations, v2vEntered>>
  /\ UNCHANGED <<openai, timeouts, conversations, files, appendLog>>

\* the download settled (bot.js 1344-1368): the audio is written to
\* v2v_input_<now><ext>, or the failure is caught
V2vDownloadSettled(i, downloaded) ==
  /\ i \in DOMAIN inv
  /\ inv[i].pc = "v2v_download"
  /\ IF downloaded
     THEN \E path \in Paths("v2v_input", i) :
            /\ files' = files \cup {path}
            /\ Continue(i, [inv[i] EXCEPT !.pc = "v2v_progress", !.inFile = path], "downloaded")
     ELSE /\ Continue(i, [inv[i] EXCEPT !.pc = "v2v_error_notice"], "download_failed")
          /\ UNCHANGED files
  /\ UNCHANGED <<openai, timeouts, userSessions, pendingOperations, conversations,
                 pendingVoiceTransformations, appendLog, v2vEntered>>

\* the progress notice settled and transformVoice is called; it reads the input
\* file before its first await (bot.js 1371-1375, 561-567)
V2vProgressSettled(i, sent) ==
  /\ i \in DOMAIN inv
  /\ inv[i].pc = "v2v_progress"
  /\ IF feedback(sent).thrown
     THEN Continue(i, [inv[i] EXCEPT !.pc = "v2v_error_notice"], "feedback_failed")
     ELSE IF inv[i].inFile \in files
     THEN Continue(i, [inv[i] EXCEPT !.pc = "v2v_call"],
                   IF sent THEN "backend_called" ELSE "backend_called_unannounced")
     ELSE Continue(i, [inv[i] EXCEPT !.pc = "v2v_error_notice"], "missing_artifact")
  /\ UNCHANGED <<openai, timeouts, userSessions, pendingOperations, conversations,
                 pendingVoiceTransformations, files, appendLog, v2vEntered>>

\* transformVoice settled (bot.js 611-654): the retries gave up, or the audio was
\* invalid, or it was written to sts_output_<now>.mp3
V2vCallSettled(i, failures, valid) ==
  /\ i \in DOMAIN inv
  /\ inv[i].pc = "v2v_call"
  /\ IF retry(failures).ok /\ valid
     THEN \E path \in Paths("sts_output", i) :
            /\ files' = files \cup {path}
            /\ Continue(i, [inv[i] EXCEPT !.pc = "v2v_sending", !.outFile = path], "generated")
     ELSE /\ Continue(i, [inv[i] EXCEPT !.pc = "v2v_error_notice"],
                      IF retry(failures).ok THEN "invalid_response" ELSE "backend_failed")
          /\ UNCHANGED files
  /\ UNCHANGED <<openai, timeouts, userSessions, pendingOperations, conversations,
                 pendingVoiceTransformations, appendLog, v2vEntered>>

\* the 'sending' notice settled; the output must still exist (bot.js 1378-1389)
V2vSendingSettled(i, sent) ==
  /\ i \in DOMAIN inv
  /\ inv[i].pc = "v2v_sending"
  /\ IF feedback(sent).thrown
     THEN Continue(i, [inv[i] EXCEPT !.pc = "v2v_error_notice"], "feedback_failed")
     ELSE IF inv[i].outFile \in files
     THEN Continue(i, [inv[i] EXCEPT !.pc = "v2v_send"],
                   IF sent THEN "sending" ELSE "sending_unannounced")
     ELSE Continue(i, [inv[i] EXCEPT !.pc = "v2v_error_notice"], "missing_artifact")
  /\ UNCHANGED <<openai, timeouts, userSessions, pendingOperations, conversations,
                 pendingVoiceTransformations, files, appendLog, v2vEntered>>

\* the unlinkSync that throws in a cleanup, if one does
Throws == {"none", "input", "output"}

\* the try block of the finally (bot.js 1407-1418): the input is unlinked, then
\* the output; an unlinkSync that throws leaves the block
cleanupV2V(fs, inFile, outFile, throws) ==
  IF inFile \in fs /\ throws = "input" THEN fs
  ELSE IF outFile \in fs /\ throws = "output" THEN unlinkIfExists(fs, inFile)
  ELSE unlinkIfExists(unlinkIfExists(fs, inFile), outFile)

\* the finally of processVoiceTransformation (bot.js 1405-1422)
V2vFinally(i, event, throws) ==
  /\ files' = cleanupV2V(files, inv[i].inFile, inv[i].outFile, throws)
  /\ pendingOperations' = clearPendingOperation(pendingOperations, inv[i].user)
  /\ Return(i, event)
  /\ UNCHANGED <<openai, timeouts, userSessions, conversations,
                 pendingVoiceTransformations, appendLog, v2vEntered>>

\* replyWithAudio settled (bot.js 1389-1393)
V2vSendSettled(i, sent, throws) ==
  /\ i \in DOMAIN inv
  /\ inv[i].pc = "v2v_send"
  /\ sent => inv[i].outFile \in files
  /\ IF sent
     THEN V2vFinally(i, "ok", throws)
     ELSE /\ Continue(i, [inv[i] EXCEPT !.pc = "v2v_error_notice"], "send_failed")
          /\ UNCHANGED <<openai, timeouts, userSessions, pendingOperations, conversations,
                         pendingVoiceTransformations, files, appendLog, v2vEntered>>

V2vErrorNoticeSettled(i, throws) ==
  /\ i \in DOMAIN inv
  /\ inv[i].pc = "v2v_error_notice"
  /\ V2vFinally(i, "failed", throws)

----------------------------------------------------------------------------
(* Startup and shutdown (bot.js 190-226, 661-753, 769-791, 1430-1486, 1539-1549) *)

\* a check of the environment that lets everything through
validateEnvVarsLenient(env) == TRUE

\* Utils.validateEnvVars (bot.js 194-223): OPENAI_API_KEY and ELEVEN_VOICE_ID are optional
validateEnvVars(env) == Required \subseteq env

\* process.exit(code)
Exit(code, cause) ==
  proc' = [proc EXCEPT !.phase = "exited", !.exitCode = code, !.cause = cause]

StartFrame == UNCHANGED <<openai, userSessions, pendingOperations, conversations,
                          pendingVoiceTransformations, files, inv, timeouts, lastEvent,
                          appendLog, v2vEntered, call>>

\* the process starts with some of the required values set, and with or
\* without OPENAI_API_KEY
InitStart ==
  /\ call = NoCall
  /\ openai \in BOOLEAN
  /\ userSessions = EmptyMap
  /\ pendingOperations = EmptyMap
  /\ conversations = EmptyMap
  /\ pendingVoiceTransformations = EmptyMap
  /\ files = {}
  /\ inv = << >>
  /\ timeouts = 0
  /\ lastEvent = NoEvent
  /\ appendLog = EmptyMap
  /\ v2vEntered = EmptyMap
  /\ proc \in {[Serving EXCEPT !.phase = "main", !.env = env] : env \in SUBSET Required}

\* main() up to the first await: the constructor (setupBot, bot.js 777-791),
\* start, verifyPrerequisites and validateEnvVars (1430-1436), and the first
\* request of verifyApis (661-688)
Main(created) ==
  /\ proc.phase = "main"
  /\ IF "BOT_TOKEN" \notin proc.env THEN Exit(1, "token")
     ELSE IF ~created THEN Exit(1, "telegraf")
     ELSE IF ~validateEnvVars(proc.env) THEN Exit(1, "environment")
     ELSE IF openai THEN proc' = [proc EXCEPT !.phase = "verify_openai"]
     ELSE IF "ELEVEN_API_KEY" \in proc.env THEN proc' = [proc EXCEPT !.phase = "verify_user"]
     ELSE Exit(1, "verification")
  /\ StartFrame

\* the test completion settled (bot.js 667-684); the ElevenLabs check follows
VerifyOpenAISettled(outcome) ==
  /\ proc.phase = "verify_openai"
  /\ LET checked == [proc EXCEPT !.checks = MapSet(@, "openai", outcome),
                                 !.allOk = (outcome = "choices")]
     IN IF "ELEVEN_API_KEY" \in proc.env
        THEN proc' = [checked EXCEPT !.phase = "verify_user"]
        ELSE proc' = [checked EXCEPT !.phase = "exited", !.exitCode = 1,
                                     !.cause = "verification"]
  /\ StartFrame

\* GET /v1/user settled (bot.js 693-699, 731-744): without a subscription in
\* the answer, or on an error, verifyApis throws and verifyPrerequisites exits
VerifyUserSettled(outcome) ==
  /\ proc.phase = "verify_user"
  /\ LET checked == [proc EXCEPT !.checks = MapSet(@, "user", outcome),
                                 !.allOk = @ /\ outcome = "subscription"]
     IN IF outcome = "subscription"
        THEN proc' = [checked EXCEPT !.phase = "verify_voice"]
        ELSE proc' = [checked EXCEPT !.phase = "exited", !.exitCode = 1,
                                     !.cause = "verification"]
  /\ StartFrame

\* GET /v1/voices/<id> settled (bot.js 703-729): a voice_id that differs is only
\* warned about; then verifyApis throws unless every check passed (747-751),
\* verifyPrerequisites exits (1451-1458) or start calls bot.launch (1471)
VerifyVoiceSettled(outcome) ==
  /\ proc.phase = "verify_voice"
  /\ LET checked == [proc EXCEPT !.checks = MapSet(@, "voice", outcome),
                                 !.allOk = @ /\ outcome \in {"match", "mismatch"}]
     IN IF checked.allOk
        THEN proc' = [checked EXCEPT !.phase = "launching"]
        ELSE proc' = [checked EXCEPT !.phase = "exited", !.exitCode = 1,
                                     !.cause = "verification"]
  /\ StartFrame

\* bot.launch connected, or threw and start exits (bot.js 1471, 1480-1485)
LaunchSettled(launched) ==
  /\ proc.phase = "launching"
  /\ IF launched THEN proc' = [proc EXCEPT !.phase = "serving"] ELSE Exit(1, "launch")
  /\ StartFrame

\* the bot handles an update
HandleUpdate ==
  /\ proc.phase = "serving"
  /\ proc.handled < MaxHandled
  /\ proc' = [proc EXCEPT !.handled = @ + 1]
  /\ StartFrame

\* SIGINT or SIGTERM (bot.js 1539-1549); the handlers are registered before
\* main is called, and a signal is delivered between two steps of the loop
handleShutdown ==
  /\ proc.phase \notin {"main", "exited"}
  /\ Exit(0, "signal")
  /\ StartFrame

NextStart ==
  \/ \E created \in BOOLEAN : Main(created)
  \/ \E outcome \in {"choices", "no_choices", "error"} : VerifyOpenAISettled(outcome)
  \/ \E outcome \in {"subscription", "unexpected", "unauthorized", "error"} :
       VerifyUserSettled(outcome)
  \/ \E outcome \in {"match", "mismatch", "not_found", "error"} : VerifyVoiceSettled(outcome)
  \/ \E launched \in BOOLEAN : LaunchSettled(launched)
  \/ HandleUpdate
  \/ handleShutdown

SpecStart == InitStart /\ [][NextStart]_vars

----------------------------------------------------------------------------
(* The bot *)

Init == InitStore

Updates == 1..MaxUpdates

Next ==
  \/ \E u \in Users : Unauthorized(u)
  \/ \E i \in Updates : NoticeSettled(i)
  \/ \E u \in Users : handleHelp(u)
  \/ \E u \in Users : handleResetConversation(u)
  \/ \E u \in Users : handleVoiceToVoiceCommand(u)
  \/ \E i \in Updates, sent \in BOOLEAN : V2VArmReplySettled(i, sent)
  \/ \E u \in Users, hasText \in BOOLEAN : handleTextCommand(u, hasText)
  \/ \E u \in Users, isPlain \in BOOLEAN : handleMessage(u, isPlain)
  \/ \E i \in Updates : CancelNoticeSettled(i)
  \/ \E i \in Updates, sent \in BOOLEAN : GptFeedbackSettled(i, sent)
  \/ \E i \in Updates, failures \in Failures, hasContent \in BOOLEAN :
       GptCallSettled(i, failures, hasContent)
  \/ \E i \in Updates, delivered \in BOOLEAN : GptDeliverSettled(i, delivered)
  \/ \E i \in Updates : GptErrorNoticeSettled(i)
  \/ \E i \in Updates : HandlerTimeout(i)
  \/ \E u \in Users, parts \in T2VInputs : handleTextToVoiceCommand(u, parts)
  \/ \E i \in Updates, sent \in BOOLEAN : T2vFeedbackSettled(i, sent)
  \/ \E i \in Updates, failures \in Failures, valid \in BOOLEAN :
       T2vCallSettled(i, failures, valid)
  \/ \E i \in Updates, sent, throws \in BOOLEAN : T2vSendSettled(i, sent, throws)
  \/ \E i \in Updates, throws \in BOOLEAN : T2vErrorNoticeSettled(i, throws)
  \/ \E u \in Users, kind \in {"voice", "audio"} : handleVoiceMessage(u, kind)
  \/ \E i \in Updates, downloaded \in BOOLEAN : V2vDownloadSettled(i, downloaded)
  \/ \E i \in Updates, sent \in BOOLEAN : V2vProgressSettled(i, sent)
  \/ \E i \in Updates, failures \in Failures, valid \in BOOLEAN :
       V2vCallSettled(i, failures, valid)
  \/ \E i \in Updates, sent \in BOOLEAN : V2vSendingSettled(i, sent)
  \/ \E i \in Updates, sent \in BOOLEAN, throws \in Throws : V2vSendSettled(i, sent, throws)
  \/ \E i \in Updates, throws \in Throws : V2vErrorNoticeSettled(i, throws)

Spec == Init /\ [][Next]_vars

\* an awaited call of the handler of update i returns or fails, and the handler
\* runs on to its next await or to its end
CallSettled(i) ==
  \/ NoticeSettled(i)
  \/ \E sent \in BOOLEAN : V2VArmReplySettled(i, sent)
  \/ CancelNoticeSettled(i)
  \/ \E sent \in BOOLEAN : GptFeedbackSettled(i, sent)
  \/ \E failures \in Failures, hasContent \in BOOLEAN : GptCallSettled(i, failures, hasContent)
  \/ \E delivered \in BOOLEAN : GptDeliverSettled(i, delivered)
  \/ GptErrorNoticeSettled(i)
  \/ \E sent \in BOOLEAN : T2vFeedbackSettled(i, sent)
  \/ \E failures \in Failures, valid \in BOOLEAN : T2vCallSettled(i, failures, valid)
  \/ \E sent, throws \in BOOLEAN : T2vSendSettled(i, sent, throws)
  \/ \E throws \in BOOLEAN : T2vErrorNoticeSettled(i, throws)
  \/ \E downloaded \in BOOLEAN : V2vDownloadSettled(i, downloaded)
  \/ \E sent \in BOOLEAN : V2vProgressSettled(i, sent)
  \/ \E failures \in Failures, valid \in BOOLEAN : V2vCallSettled(i, failures, valid)
  \/ \E sent \in BOOLEAN : V2vSendingSettled(i, sent)
  \/ \E sent \in BOOLEAN, throws \in Throws : V2vSendSettled(i, sent, throws)
  \/ \E throws \in Throws : V2vErrorNoticeSettled(i, throws)

\* the bot, for these users, when no call to Telegram or to a backend stays pending for ever:
\* the promise a handler awaits is settled, and the event loop runs the handler
\* on; the waits of Utils.retry are timers (bot.js 181-183) and end
\* the users of the fair specification: one of AUTHORIZED_USERS and the stranger
LiveUsers == {1, 3}

NextLive ==
  \/ \E u \in LiveUsers : Unauthorized(u)
  \/ \E i \in Updates : NoticeSettled(i)
  \/ \E u \in LiveUsers : handleHelp(u)
  \/ \E u \in LiveUsers : handleResetConversation(u)
  \/ \E u \in LiveUsers : handleVoiceToVoiceCommand(u)
  \/ \E i \in Updates, sent \in BOOLEAN : V2VArmReplySettled(i, sent)
  \/ \E u \in LiveUsers, hasText \in BOOLEAN : handleTextCommand(u, hasText)
  \/ \E u \in LiveUsers, isPlain \in BOOLEAN : handleMessage(u, isPlain)
  \/ \E i \in Updates : CancelNoticeSettled(i)
  \/ \E i \in Updates, sent \in BOOLEAN : GptFeedbackSettled(i, sent)
  \/ \E i \in Updates, failures \in Failures, hasContent \in BOOLEAN :
       GptCallSettled(i, failures, hasContent)
  \/ \E i \in Updates, delivered \in BOOLEAN : GptDeliverSettled(i, delivered)
  \/ \E i \in Updates : GptErrorNoticeSettled(i)
  \/ \E i \in Updates : HandlerTimeout(i)
  \/ \E u \in LiveUsers, parts \in T2VInputs : handleTextToVoiceCommand(u, parts)
  \/ \E i \in Updates, sent \in BOOLEAN : T2vFeedbackSettled(i, sent)
  \/ \E i \in Updates, failures \in Failures, valid \in BOOLEAN :
       T2vCallSettled(i, failures, valid)
  \/ \E i \in Updates, sent, throws \in BOOLEAN : T2vSendSettled(i, sent, throws)
  \/ \E i \in Updates, throws \in BOOLEAN : T2vErrorNoticeSettled(i, throws)
  \/ \E u \in LiveUsers, kind \in {"voice", "audio"} : handleVoiceMessage(u, kind)
  \/ \E i \in Updates, downloaded \in BOOLEAN : V2vDownloadSettled(i, downloaded)
  \/ \E i \in Updates, sent \in BOOLEAN : V2vProgressSettled(i, sent)
  \/ \E i \in Updates, failures \in Failures, valid \in BOOLEAN :
       V2vCallSettled(i, failures, valid)
  \/ \E i \in Updates, sent \in BOOLEAN : V2vSendingSettled(i, sent)
  \/ \E i \in Updates, sent \in BOOLEAN, throws \in Throws : V2vSendSettled(i, sent, throws)
  \/ \E i \in Updates, throws \in Throws : V2vErrorNoticeSettled(i, throws)

SpecLive == Init /\ [][NextLive]_vars /\ \A i \in Updates : WF_vars(CallSettled(i))

----------------------------------------------------------------------------
(* Properties *)

PipelineKinds == {"gpt", "t2v", "sts"}

\* the kinds of update that reach the entry of a pipeline
PipelineRequests == {"t", "text", "t2v", "voice", "audio"}

\* C1: for every user at most one pipeline (text generation, text to speech,
\* voice transform) is in flight in every reachable state.
C1_MutualExclusion == \A u \in Users : Cardinality(InPipeline(u)) <= 1

\* C2: a pipeline invocation that set the lock of its user has cleared it when it
\* returns, on the success path and on every failure path: in the step in which
\* a handler leaves a pipeline body and returns, the lock of its user ends absent.
C2_ReleaseOnReturn ==
  [][\A i \in DOMAIN inv :
       (inv[i].pc \in PipelinePcs /\ inv'[i].pc = "done")
         => ~hasPendingOperation(pendingOperations', inv[i].user)]_vars

\* a pipeline has just returned through its error notice, and its user is unlocked
C2_Witness ==
  /\ lastEvent.kind \in PipelineKinds
  /\ lastEvent.event = "failed"
  /\ ~MapHas(pendingOperations, lastEvent.user)

\* the step is the arrival of a request of u that is rejected as busy at a pipeline entry
BusyRejection(u) ==
  /\ Len(inv') = Len(inv) + 1
  /\ lastEvent'.user = u
  /\ lastEvent'.kind \in PipelineRequests
  /\ lastEvent'.event = "busy"

\* what C3 says a rejection leaves alone: the lock, the voice intent and the history of u
UserState(u) ==
  <<IF MapHas(pendingOperations, u) THEN <<pendingOperations[u]>> ELSE << >>,
    IF MapHas(pendingVoiceTransformations, u) THEN <<pendingVoiceTransformations[u]>> ELSE << >>,
    IF MapHas(conversations, u) THEN <<conversations[u]>> ELSE << >> >>

\* C3: a request that finds the lock of its user set at the entry of a pipeline
\* (/t, plain text, /t2v, voice or audio) is rejected with the 'still processing'
\* notice and leaves the lock, the voice intent and the history of the user as
\* they were.
C3_BusyRejectionChangesNothing ==
  [][\A u \in Users : BusyRejection(u) => UserState(u)' = UserState(u)]_vars

\* C4: when a fault in handling an update of a user reaches the global error
\* handler, afterwards the lock and the voice intent of that user are both absent.
C4_FaultClearsLockAndIntent ==
  lastEvent.event = "handler_timeout"
    => /\ ~MapHas(pendingOperations, lastEvent.user)
       /\ ~MapHas(pendingVoiceTransformations, lastEvent.user)

\* the error handler has just run for a user whose pipeline is still in flight
C4_Witness ==
  /\ lastEvent.event = "handler_timeout"
  /\ InPipeline(lastEvent.user) # {}
  /\ ~MapHas(pendingOperations, lastEvent.user)

\* C5: every stored history has between 1 and 1 + 2K entries (K = 10) and its
\* entry 0 is the system entry, after any sequence of getConversation,
\* addMessageToConversation and reset.
C5_HistoryBound ==
  \A u \in DOMAIN conversations :
    /\ Len(conversations[u]) >= 1
    /\ Len(conversations[u]) <= 1 + 2 * maxHistoryPairs
    /\ conversations[u][1] = SystemEntry

\* a history at the cap after more than 2K appends
C5_Witness ==
  \E u \in DOMAIN conversations :
    /\ Appended(u) > 2 * maxHistoryPairs
    /\ Len(conversations[u]) = 1 + 2 * maxHistoryPairs

Min(a, b) == IF a < b THEN a ELSE b

\* the most recent min(n, 2K) of the n entries appended for u, in append order
Window(u) ==
  IF MapHas(appendLog, u)
  THEN SubSeq(appendLog[u],
              Appended(u) - Min(Appended(u), 2 * maxHistoryPairs) + 1, Appended(u))
  ELSE << >>

\* C6: after any sequence of appends for a user with no reset in between, the
\* non-system entries of the history are exactly the most recent min(n, 2K)
\* appended entries in their append order.
C6_SlidingWindow ==
  \A u \in DOMAIN conversations : Tail(conversations[u]) = Window(u)

\* at least two entries were evicted and the oldest retained one is append n - 2K + 1
C6_Witness ==
  \E u \in DOMAIN conversations :
    /\ Appended(u) >= 2 * maxHistoryPairs + 2
    /\ conversations[u][2].content = Appended(u) - 2 * maxHistoryPairs + 1

\* C7: right after a reset of the history of a user, a second reset changes
\* nothing, and the next getConversation returns only the system entry; the
\* same holds when the user had no history.
C7_ResetIdempotent ==
  (lastEvent.kind = "store" /\ lastEvent.event \in {"reset", "reset_absent"})
    => /\ deleteConversation(conversations, lastEvent.user) = conversations
       /\ getConversation(conversations, lastEvent.user)[lastEvent.user] = <<SystemEntry>>

\* a history that existed has just been reset while another user keeps one
C7_Witness ==
  /\ lastEvent.kind = "store"
  /\ lastEvent.event = "reset"
  /\ \E v \in DOMAIN conversations : v # lastEvent.user /\ Len(conversations[v]) > 1

\* the step is the arrival of /reset from u, who has no history
ResetWithoutHistory(u) ==
  /\ Len(inv') = Len(inv) + 1
  /\ lastEvent'.user = u
  /\ lastEvent'.kind = "reset"
  /\ ~MapHas(conversations, u)

\* C8 as stated: when an authorized user with no history sends /reset, a
\* confirmation is sent and the store is unchanged.
C8_ResetConfirmedStoreUnchanged ==
  [][\A u \in authorizedUsers :
       ResetWithoutHistory(u)
         => lastEvent'.event = "reset_confirmed" /\ conversations' = conversations]_vars

\* C8 amended: when an authorized user with no history sends /reset, the store
\* is unchanged; a confirmation is sent if the generation backend is configured,
\* and the capability-disabled notice if it is not.
C8_ResetWithoutHistoryStoreUnchanged ==
  [][\A u \in authorizedUsers :
       ResetWithoutHistory(u)
         => /\ lastEvent'.event = IF openai THEN "reset_confirmed" ELSE "gpt_disabled"
            /\ conversations' = conversations]_vars

\* /reset was the first update, it was confirmed, and the store is empty
C8_Witness ==
  /\ Len(inv) = 1
  /\ lastEvent.kind = "reset"
  /\ lastEvent.event = "reset_confirmed"
  /\ conversations = EmptyMap

\* C9: the keys of the four per-user maps are authorized users; an update of a
\* user who is not authorized gets the rejection notice, runs no handler and
\* reaches no backend.
C9_AuthorizationGate ==
  /\ DOMAIN userSessions \subseteq authorizedUsers
  /\ DOMAIN pendingOperations \subseteq authorizedUsers
  /\ DOMAIN pendingVoiceTransformations \subseteq authorizedUsers
  /\ DOMAIN conversations \subseteq authorizedUsers
  /\ \A i \in Running :
       inv[i].user \notin authorizedUsers => inv[i].kind = "reply" /\ inv[i].pc = "notice"
  /\ (lastEvent.user \in Users \ authorizedUsers)
       => lastEvent.event \in {"unauthorized", "settled", "handler_timeout"}

\* an unauthorized user has just been rejected while an authorized one is served
C9_Witness ==
  /\ lastEvent.user \in Users \ authorizedUsers
  /\ lastEvent.event = "unauthorized"
  /\ \E i \in Running : inv[i].user \in authorizedUsers /\ inv[i].pc \in PipelinePcs

\* C10: for one arming /v2v the transform pipeline is entered at most once, and
\* the intent is gone as soon as an audio has been taken for it.
C10_SingleConsumption ==
  /\ \A m \in DOMAIN v2vEntered : v2vEntered[m] <= 1
  /\ (lastEvent.kind \in {"voice", "audio"} /\ lastEvent.event \in {"accepted", "busy"})
       => ~MapHas(pendingVoiceTransformations, lastEvent.user)

\* a second audio is answered as unsolicited while the transform of the first is in flight
C10_Witness ==
  /\ lastEvent.kind \in {"voice", "audio"}
  /\ lastEvent.event = "unsolicited_audio"
  /\ \E i \in InPipeline(lastEvent.user) : inv[i].kind = "sts"
  /\ \E m \in DOMAIN v2vEntered : v2vEntered[m] = 1

\* an update of u arrives and its handler runs up to its first await
Arrival(u) ==
  /\ Len(inv') = Len(inv) + 1
  /\ lastEvent'.user = u

\* C11: once the voice intent of a user is set, the very next message of that
\* user clears it whatever its kind: when a message of u is handled while the
\* intent is set, the intent is cleared by that handler (at once, or, for a
\* plain text, when the cancel notice it is sending has settled).
C11_IntentClearedByNextMessage ==
  [][\A u \in authorizedUsers :
       (Arrival(u) /\ MapHas(pendingVoiceTransformations, u))
         => \/ ~MapHas(pendingVoiceTransformations', u)
            \/ inv'[Len(inv')].pc = "cancel_notice"]_vars

\* a voice message or an audio file of u arrives while the intent of u is set
AudioWhileArmed(u) ==
  /\ Arrival(u)
  /\ lastEvent'.kind \in {"voice", "audio"}
  /\ MapHas(pendingVoiceTransformations, u)

\* the handler of the arriving update cleared the intent of u, took the lock
\* for the transformation and is inside the transform pipeline
TransformTriggered(u) ==
  /\ ~MapHas(pendingVoiceTransformations', u)
  /\ MapHas(pendingOperations', u)
  /\ pendingOperations'[u] = "v2v_transforming"
  /\ inv'[Len(inv')] = Invocation(u, "sts", "v2v_download")
  /\ lastEvent'.event = "accepted"

Cancelling(u) == {i \in Running : inv[i].user = u /\ inv[i].pc = "cancel_notice"}

\* C13: when a plain text of u is handled while the intent of u is set, the
\* user is notified and no text-generation pipeline runs for it; when its
\* handler returns the intent is cleared; and while the handler is suspended
\* sending the notice no transform pipeline is entered from the arming it cancels.
C13_TextWhileArmedCancels ==
  [][\A u \in authorizedUsers :
       /\ (/\ Arrival(u)
           /\ lastEvent'.kind = "text"
           /\ lastEvent'.event # "ignored"
           /\ MapHas(pendingVoiceTransformations, u))
            => /\ lastEvent'.event = "v2v_cancelled"
               /\ inv'[Len(inv')] = Invocation(u, "text", "cancel_notice")
               /\ pendingOperations' = pendingOperations
       /\ \A i \in Cancelling(u) :
            /\ inv'[i].pc = "done" => ~MapHas(pendingVoiceTransformations', u)
            /\ (MapHas(pendingVoiceTransformations, u) /\ pendingVoiceTransformations[u] < i)
                 => pendingVoiceTransformations[u] \notin DOMAIN v2vEntered']_vars

\* a /v2v command of u arrives
V2vCommand(u) ==
  /\ Arrival(u)
  /\ lastEvent'.kind = "v2v"

C15_V2vRejectedWhileLocked ==
  [][\A u \in authorizedUsers :
       (V2vCommand(u) /\ MapHas(pendingOperations, u))
         => /\ lastEvent'.event = "busy"
            /\ inv'[Len(inv')] = Invocation(u, "reply", "notice")
            /\ pendingVoiceTransformations' = pendingVoiceTransformations
            /\ pendingOperations' = pendingOperations]_vars

\* /v2v was rejected while the lock and an earlier intent were both set
C15_Witness ==
  /\ lastEvent.kind = "v2v"
  /\ lastEvent.event = "busy"
  /\ MapHas(pendingOperations, lastEvent.user)
  /\ MapHas(pendingVoiceTransformations, lastEvent.user)

\* the temporary files that invocation i has created
Artifacts(i) == {inv[i].inFile, inv[i].outFile} \ {NoFile}

\* the handler of i, inside a pipeline of one of the kinds, returns in this step
Settles(i, kinds) ==
  /\ i \in Running
  /\ inv[i].kind \in kinds
  /\ inv[i].pc \in PipelinePcs
  /\ inv'[i].pc = "done"

\* C16: once a text-to-speech or voice-transform invocation has settled, no
\* temporary file that it created still exists; and a final delivery that
\* failed is reported to the user by the error notice before the handler returns.
C16_NoArtifactAfterSettling ==
  [][\A i \in DOMAIN inv :
       /\ Settles(i, {"t2v", "sts"}) => Artifacts(i) \cap files' = {}
       /\ (i \in Running /\ lastEvent'.event = "send_failed" /\ inv'[i] # inv[i])
            => inv'[i].pc \in {"t2v_error_notice", "v2v_error_notice"}]_vars

\* C17: on every exit path of processVoiceTransformation each created
\* artifact is deleted whatever happens to the other one: an input whose
\* deletion fails does not keep the output from being deleted, and an output
\* whose deletion fails does not keep the input from being deleted.
C17_BothArtifactsCleaned ==
  [][\A i \in DOMAIN inv :
       (Settles(i, {"sts"}) /\ inv[i].inFile \in files /\ inv[i].outFile \in files)
         => ~(inv[i].inFile \in files' /\ inv[i].outFile \in files')]_vars

\* the entries that the exchange of update i has left in the history of its user
Left(convs, userId, i) ==
  IF MapHas(convs, userId)
  THEN {k \in DOMAIN convs[userId] : convs[userId][k] \in {Entry("user", i), Entry("assistant", i)}}
  ELSE {}

\* C18: if the generation backend call fails, then when processGPTMessage
\* returns the history of the user is as it was before the request: the failed
\* exchange has left no entry behind.
C18_FailedGenerationLeavesNoEntry ==
  [][\A i \in DOMAIN inv :
       (Settles(i, {"gpt"}) /\ inv[i].pc = "gpt_error_notice")
         => Left(conversations', inv[i].user, i) = {}]_vars

Last(s) == s[Len(s)]

\* a history cut down to the cap, the system entry kept
Capped(s) == IF Len(s) > maxMessages THEN splice(s, 1, Len(s) - maxMessages) ELSE s

\* the handler of update i moves from one await to another in this step
Moves(i, from, to) ==
  /\ i \in Running
  /\ inv[i].pc = from
  /\ inv'[i].pc = to

\* C19: a text-generation pipeline appends the message of the user to the
\* history (the history handed to the backend thus ends with it); when the
\* backend succeeds and nothing has touched the history since, the reply is
\* appended right after the message, subject to the cap; and the reply stays in
\* the history whether or not its delivery succeeds.
C19_SuccessfulGenerationAppendsExchange ==
  [][\A i \in DOMAIN inv :
       LET u == inv[i].user
       IN /\ Moves(i, "gpt_feedback", "gpt_call")
               => /\ MapHas(conversations', u)
                  /\ Last(conversations'[u]) = Entry("user", i)
                  /\ conversations'[u] =
                       Capped(Append(getConversation(conversations, u)[u], Entry("user", i)))
          /\ (/\ Moves(i, "gpt_call", "gpt_deliver")
              /\ MapHas(conversations, u)
              /\ Last(conversations[u]) = Entry("user", i))
               => conversations'[u] = Capped(Append(conversations[u], Entry("assistant", i)))
          /\ Moves(i, "gpt_deliver", "done") => conversations' = conversations]_vars

\* a reply whose delivery failed is in the history, right after its message
C19_Witness ==
  /\ lastEvent.kind = "gpt"
  /\ lastEvent.event = "delivery_failed"
  /\ MapHas(conversations, lastEvent.user)
  /\ \E k \in Updates :
       LET h == conversations[lastEvent.user]
       IN /\ Len(h) >= 3
          /\ h[Len(h) - 1] = Entry("user", k)
          /\ h[Len(h)] = Entry("assistant", k)

\* no history, no generation lock and no generation pipeline
NoGeneration ==
  /\ conversations = EmptyMap
  /\ \A u \in DOMAIN pendingOperations : pendingOperations[u] # "gpt_generating"
  /\ \A i \in DOMAIN inv : inv[i].kind # "gpt"

\* a /t, a plain text or a /reset of u arrives
GenerationRequest(u) ==
  /\ Arrival(u)
  /\ lastEvent'.kind \in {"t", "text", "reset"}
  /\ lastEvent'.event # "ignored"

\* C20 as stated: without a generation backend the store stays empty, no
\* gpt_generating lock is set, the backend is never called, and every /t, plain
\* text and /reset is answered with the capability-disabled notice.
C20_EveryGenerationRequestDisabled ==
  [][~openai =>
       /\ NoGeneration /\ NoGeneration'
       /\ \A u \in authorizedUsers :
            GenerationRequest(u) => lastEvent'.event = "gpt_disabled"]_vars

\* C20 amended: without a generation backend the store stays empty, no
\* gpt_generating lock is set and the backend is never called; every /t and
\* /reset, and every plain text received while no voice intent is set, is
\* answered with the capability-disabled notice; a plain text received while the
\* intent is set gets the cancellation notice; /t2v, /v2v and audio messages are
\* never answered with the capability-disabled notice.
C20_GenerationDisabled ==
  [][~openai =>
       /\ NoGeneration /\ NoGeneration'
       /\ \A u \in authorizedUsers :
            /\ GenerationRequest(u) =>
                 IF lastEvent'.kind = "text" /\ MapHas(pendingVoiceTransformations, u)
                 THEN lastEvent'.event = "v2v_cancelled"
                 ELSE lastEvent'.event = "gpt_disabled"
            /\ (Arrival(u) /\ lastEvent'.kind \in {"t2v", "v2v", "voice", "audio"})
                 => lastEvent'.event # "gpt_disabled"]_vars

\* a plain text is answered with the capability-disabled notice while a voice
\* pipeline of the bot has an artifact on disk
C20_Witness ==
  /\ ~openai
  /\ lastEvent.kind = "text"
  /\ lastEvent.event = "gpt_disabled"
  /\ files # {}

\* how many calls of fn throw before the first one that returns
RECURSIVE FailuresBefore(_, _)
FailuresBefore(fn, k) ==
  IF k > Len(fn) \/ fn[k] \in Returning THEN 0 ELSE 1 + FailuresBefore(fn, k + 1)

\* a call of Utils.retry has ended
Retried == call.fn = "retry" /\ call.result # Pending

\* C21: when fn throws on its first f calls and returns on call f+1 (f < N),
\* Utils.retry returns that result after exactly f+1 attempts and f waits; when
\* all N calls throw it makes exactly N attempts and N-1 waits and throws the
\* error of the N-th attempt.
C21_RetryOutcome ==
  Retried =>
    LET f == FailuresBefore(call.outcomes, 1)
        N == call.maxRetries
        r == call.result
    IN IF f < N
       THEN /\ r.status = "returned"
            /\ r.value = Outcome(call.outcomes[f + 1], f + 1)
            /\ r.attempts = f + 1
            /\ Len(r.waits) = f
       ELSE /\ r.status = "thrown"
            /\ r.value = Outcome(call.outcomes[N], N)
            /\ r.attempts = N
            /\ Len(r.waits) = N - 1

\* Utils.retry gave up after three failed attempts
C21_Witness ==
  /\ Retried
  /\ call.maxRetries = MAX_RETRIES
  /\ call.result.status = "thrown"
  /\ call.result.attempts = MAX_RETRIES
  /\ Len(call.result.waits) = MAX_RETRIES - 1

\* C22: the wait after the i-th failure (i from 1) is base * 2^(i-1); with the
\* defaults (3 attempts, base 5000 ms) the waits are 5000 ms, then 10000 ms.
C22_RetryBackoff ==
  Retried =>
    /\ \A i \in DOMAIN call.result.waits : call.result.waits[i] = call.delay * 2^(i - 1)
    /\ (/\ call.maxRetries = MAX_RETRIES
        /\ call.delay = RETRY_DELAY
        /\ call.result.status = "thrown")
         => call.result.waits = <<5000, 10000>>

\* Utils.retry with a larger cap waited three times
C22_Witness ==
  /\ Retried
  /\ call.delay = RETRY_DELAY
  /\ Len(call.result.waits) = 3
  /\ call.result.waits[3] = 20000

\* C23: whatever the kind of the failure of a backend call (an error thrown by
\* the request, or a response that is invalid or empty), the call is attempted
\* again until N attempts have been made: no failure is surfaced to the
\* pipeline after fewer than N attempts.
C23_BlindRetry ==
  (call.fn = "generate" /\ call.result # Pending /\ call.result.status = "thrown")
    => call.result.attempts = MAX_RETRIES

\* a message has been parsed
Parsed == call.fn = "parse" /\ call.result # Pending

\* part k is an option, or the value that follows an option
IsOption(parts, k) == parts[k].type = "flag"
IsValue(parts, k) == k > 1 /\ IsOption(parts, k - 1)

\* every option is immediately followed by a numeric token
WellFormed(parts) ==
  \A k \in DOMAIN parts :
    IsOption(parts, k) => (k < Len(parts) /\ parts[k + 1].type = "number")

\* the parts from k on that are neither options nor their values
RECURSIVE BodyFrom(_, _)
BodyFrom(parts, k) ==
  IF k > Len(parts) THEN << >>
  ELSE IF IsOption(parts, k) \/ IsValue(parts, k) \/ parts[k] = EmptyPart
  THEN BodyFrom(parts, k + 1)
  ELSE <<parts[k]>> \o BodyFrom(parts, k + 1)

\* the options given, each with the value of its last occurrence
GivenOptions(parts) ==
  {<<parts[k].flag, parts[k + 1].value>> :
     k \in {j \in DOMAIN parts :
              /\ IsOption(parts, j)
              /\ \A l \in DOMAIN parts : (IsOption(parts, l) /\ l > j) => parts[l].flag # parts[j].flag}}

\* C24: for a /t2v input made of options, each immediately followed by a
\* numeric token, mixed with body tokens, the parse reports no error, the
\* overrides are exactly the options given with their values (options not
\* given are absent), and the body is the remaining tokens in their order.
C24_WellFormedParse ==
  (Parsed /\ WellFormed(call.parts)) =>
    /\ ~call.result.parsingError
    /\ call.result.overrideOptions = GivenOptions(call.parts)
    /\ call.result.textToConvert = BodyFrom(call.parts, 1)

\* -s 0.4 -v 1.1 "Hola" gives {stability: 0.4, speed: 1.1} and the body "Hola"
C24_Witness ==
  /\ Parsed
  /\ call.parts = <<Flag("stability"), Number(4), Flag("speed"), Number(11), Word>>
  /\ call.result.overrideOptions = {<<"stability", 4>>, <<"speed", 11>>}
  /\ call.result.textToConvert = <<Word>>

\* C25: a /t2v input in which an option is followed by a token that is not a
\* number, or in which an option is the last token, is rejected as a parse error.
C25_MalformedOptionRejected ==
  (Parsed /\ ~WellFormed(call.parts)) => call.result.parsingError

TextMessage(u) ==
  /\ Arrival(u)
  /\ lastEvent'.kind = "text"

\* processGPTMessage is entered for the arriving text of u: the text is
\* rejected because the lock is set, or the lock is taken and the
\* text-generation pipeline starts
GenerationEntered(u) ==
  IF MapHas(pendingOperations, u)
  THEN lastEvent'.event = "busy" /\ pendingOperations' = pendingOperations
  ELSE /\ lastEvent'.event = "accepted"
       /\ pendingOperations' = MapSet(pendingOperations, u, "gpt_generating")
       /\ inv'[Len(inv')] = Invocation(u, "gpt", "gpt_feedback")

\* C27 as stated: any text of an authorized user that is not a recognized
\* command is treated as a text-generation request, unless the voice intent of
\* the user is set, in which case it is not.
C27_AnyOtherTextIsGenerationRequest ==
  [][\A u \in authorizedUsers :
       TextMessage(u) =>
         IF MapHas(pendingVoiceTransformations, u)
         THEN inv'[Len(inv')].kind # "gpt" /\ pendingOperations' = pendingOperations
         ELSE GenerationEntered(u)]_vars

\* C27 amended: a text of an authorized user that is not a recognized command
\* and does not start with '/' is treated as a text-generation request when the
\* generation backend is configured, unless the voice intent of the user is
\* set, in which case it is not; without a backend it is answered with the
\* capability-disabled notice; a text that starts with '/' is ignored.
C27_PlainTextIsGenerationRequest ==
  [][\A u \in authorizedUsers : \A isPlain \in BOOLEAN :
       (TextMessage(u) /\ handleMessage(u, isPlain)) =>
         IF ~isPlain
         THEN /\ lastEvent'.event = "ignored"
              /\ inv'[Len(inv')] = Done
              /\ UserState(u)' = UserState(u)
         ELSE IF MapHas(pendingVoiceTransformations, u)
         THEN inv'[Len(inv')].kind # "gpt" /\ pendingOperations' = pendingOperations
         ELSE IF openai
         THEN GenerationEntered(u)
         ELSE lastEvent'.event = "gpt_disabled" /\ pendingOperations' = pendingOperations]_vars

\* a plain text started the text-generation pipeline
C27_Witness ==
  /\ lastEvent.kind = "text"
  /\ lastEvent.event = "accepted"
  /\ inv[Len(inv)] = Invocation(lastEvent.user, "gpt", "gpt_feedback")
  /\ pendingOperations[lastEvent.user] = "gpt_generating"

\* a check of the backends that was made and did not pass
FailedChecks ==
  {c \in DOMAIN proc.checks :
     proc.checks[c] \notin {"choices", "subscription", "match", "mismatch"}}

\* C28: the bot serves updates only after every required value was found and
\* every check of the backends has passed; when a required value is missing the
\* process exits with code 1 before anything else happens; when a check has
\* failed the process never serves and never handles an update, and exits with
\* code 1; an exit on a shutdown signal has code 0, every other exit code 1.
C28_StartupGating ==
  /\ (proc.phase = "serving" \/ proc.handled > 0)
       => /\ Required \subseteq proc.env
          /\ FailedChecks = {}
          /\ {"user", "voice"} \subseteq DOMAIN proc.checks
          /\ openai => "openai" \in DOMAIN proc.checks
  /\ (proc.phase # "main" /\ ~(Required \subseteq proc.env))
       => proc.phase = "exited" /\ proc.exitCode = 1
  /\ FailedChecks # {}
       => /\ proc.phase \in {"verify_user", "verify_voice", "exited"}
          /\ proc.handled = 0
          /\ proc.phase = "exited" => (proc.exitCode = 1 \/ proc.cause = "signal")
  /\ proc.phase = "exited"
       => proc.exitCode = (IF proc.cause = "signal" THEN 0 ELSE 1)

\* the bot was launched after a complete verification, handled updates and was shut down
C28_Witness ==
  /\ proc.phase = "exited"
  /\ proc.exitCode = 0
  /\ proc.handled > 0
  /\ openai
  /\ DOMAIN proc.checks = {"openai", "user", "voice"}

\* the handler of update i leaves the await it was at
Leaves(i, from) ==
  /\ i \in Running
  /\ inv[i].pc = from
  /\ inv'[i].pc # from

\* the handler of update i goes on to the next stage of its pipeline and the
\* lock is as it was
Proceeds(i, to) ==
  /\ inv'[i].pc = to
  /\ pendingOperations' = pendingOperations
  /\ lastEvent'.event \notin {"feedback_failed", "failed"}

\* C29: whether the progress notice of a pipeline was sent or failed, the
\* pipeline goes from the notice to its backend call (text generation, text to
\* voice, voice transformation with its input at hand) or to the delivery
\* (voice transformation with its output at hand), never to the error notice,
\* and the lock is untouched by that step; and the step at which a pipeline
\* returns leaves no lock of its user.
C29_FeedbackIsBestEffort ==
  [][\A i \in Updates :
       /\ Leaves(i, "gpt_feedback") => Proceeds(i, "gpt_call")
       /\ Leaves(i, "t2v_feedback") => Proceeds(i, "t2v_call")
       /\ (Leaves(i, "v2v_progress") /\ inv[i].inFile \in files) => Proceeds(i, "v2v_call")
       /\ (Leaves(i, "v2v_sending") /\ inv[i].outFile \in files) => Proceeds(i, "v2v_send")
       /\ (i \in Running /\ inv[i].pc \in PipelinePcs /\ inv'[i].pc = "done")
            => ~MapHas(pendingOperations', inv[i].user)]_vars

\* a progress notice has just failed and the backend call of that pipeline is
\* under way, its lock held
C29_Witness ==
  /\ lastEvent.event = "backend_called_unannounced"
  /\ \E i \in Running :
       /\ inv[i].user = lastEvent.user
       /\ inv[i].pc \in {"gpt_call", "t2v_call", "v2v_call"}
       /\ MapHas(pendingOperations, inv[i].user)

\* a request for a pipeline by user u that is answered with the busy notice
BusyAnswer(u) ==
  /\ Arrival(u)
  /\ lastEvent'.event = "busy"

\* C30: when no call stays pending for ever, a lock that is held is released,
\* and the handlers that run all return; a backend call is given up after at most
\* MAX_RETRIES attempts; and a request of a user who holds no lock is not
\* turned away with the busy notice.
C30_PipelineLiveness ==
  /\ \A u \in LiveUsers : MapHas(pendingOperations, u) ~> ~MapHas(pendingOperations, u)
  /\ (Running # {}) ~> (Running = {})
  /\ [](\A failures \in Failures : retry(failures).attempts <= MAX_RETRIES)
  /\ [][\A u \in LiveUsers : BusyAnswer(u) => MapHas(pendingOperations, u)]_vars

\* a pipeline has just run to completion and delivered its result, and its
\* user holds no lock and runs no pipeline
C30_Witness ==
  /\ lastEvent.event = "ok"
  /\ lastEvent.kind \in PipelineRequests
  /\ ~MapHas(pendingOperations, lastEvent.user)
  /\ InPipeline(lastEvent.user) = {}

\* a /t2v message has been handled up to the request of generateVoice
Voiced == call.fn = "voice" /\ call.result # Pending

\* v brought into lo..hi
Clamped(v, lo, hi) == IF v < lo THEN lo ELSE IF v > hi THEN hi ELSE v

\* the value given for an option in the message
Given(parts, name) == (CHOOSE o \in GivenOptions(parts) : o[1] = name)[2]

IsGiven(parts, name) == \E o \in GivenOptions(parts) : o[1] = name

C38_SpeedWithinDocumentedRange ==
  (Voiced /\ call.result.status = "requested") =>
    (call.result.voice_settings.speed >= 7 /\ call.result.voice_settings.speed <= 12)

\* C37: when the parse of a /t2v message reports no error, every option of the
\* message is immediately followed by a numeric token, none is immediately
\* followed by another option, and every option of the message has an override.
C37_NoOptionDropped ==
  (Parsed /\ ~call.result.parsingError) =>
    \A k \in DOMAIN call.parts :
      IsOption(call.parts, k) =>
        /\ k < Len(call.parts)
        /\ ~IsOption(call.parts, k + 1)
        /\ call.parts[k + 1].type = "number"
        /\ \E o \in call.result.overrideOptions : o[1] = call.parts[k].flag

\* the tag that a pipeline of a kind sets
TagOf(kind) ==
  IF kind = "gpt" THEN "gpt_generating"
  ELSE IF kind = "t2v" THEN "t2v_converting"
  ELSE "v2v_transforming"

\* C32: in every reachable state a user holds a lock if and only if a pipeline
\* of that user is in flight, and the tag of the lock is the kind of a pipeline
\* of the user that is in flight.
C32_LockReflectsPipeline ==
  \A u \in Users :
    /\ MapHas(pendingOperations, u) <=> InPipeline(u) # {}
    /\ MapHas(pendingOperations, u) =>
         \E i \in InPipeline(u) : pendingOperations[u] = TagOf(inv[i].kind)

\* C33: no two invocations that are in flight at the same time have a
\* temporary file path in common.
C33_ArtifactsNotShared ==
  \A i, j \in Running : i # j => Artifacts(i) \cap Artifacts(j) = {}

\* the lock, the voice intent, the history and the session of user v
OwnState(v) ==
  <<UserState(v), IF MapHas(userSessions, v) THEN <<userSessions[v]>> ELSE << >> >>

\* C34: a step that handles an event of one user (a command, a text, an audio,
\* a step of a pipeline or a handler timeout) leaves the lock, the voice intent,
\* the history and the session of every other user as they were; and a request
\* is answered with the busy notice only when its own user holds a lock.
C34_PerUserIsolation ==
  [][\A v \in Users :
       /\ lastEvent'.user # v => OwnState(v)' = OwnState(v)
       /\ BusyRejection(v) => MapHas(pendingOperations, v)]_vars

\* a request of user 1 has just been accepted while user 2 holds a lock of
\* their own
C34_Witness ==
  /\ lastEvent.user = 1
  /\ lastEvent.event = "accepted"
  /\ MapHas(pendingOperations, 1)
  /\ MapHas(pendingOperations, 2)
  /\ MapHas(userSessions, 2)

\* the entries of a history
Entries(h) == {h[k] : k \in DOMAIN h}

\* C35: the history of a user holds no entry of an exchange that started
\* before the last /reset of that user: a reply is in the history only
\* together with the message it answers, which was appended when the exchange
\* started and is in the history unless a /reset has deleted it since.
C35_NoEntryFromBeforeReset ==
  \A u \in DOMAIN conversations :
    \A e \in Entries(conversations[u]) :
      e.role = "assistant" => Entry("user", e.content) \in Entries(conversations[u])

\* C36: the history that the generation backend is invoked with, which is the
\* history right after the message of the user has been appended, has the
\* system entry first, a user entry right after it, and that message last.
C36_WellFormedHistoryAtBackend ==
  \A u \in authorizedUsers :
    (openai /\ lastEvent = Event(u, "store", "user")) =>
      /\ conversations[u][1] = SystemEntry
      /\ conversations[u][2].role = "user"
      /\ Last(conversations[u]) = Entry("user", Appended(u))

\* C39: when the 'send me the audio' reply of a /v2v command fails, the step
\* that handles the failure leaves the user without a voice intent (the one
\* that the command set included) and leaves the locks as they were.
C39_ArmingRolledBack ==
  [][\A i \in Updates :
       Moves(i, "v2v_arm_reply", "notice") =>
         /\ ~MapHas(pendingVoiceTransformations', inv[i].user)
         /\ pendingOperations' = pendingOperations]_vars

\* the confirmation of a /v2v that had set the intent has just failed, and the
\* user is not armed
C39_Witness ==
  /\ lastEvent.event = "arm_failed"
  /\ ~MapHas(pendingVoiceTransformations, lastEvent.user)
  /\ \E i \in Running : inv[i].user = lastEvent.user /\ inv[i].pc = "notice"
====
